---- MODULE Spec2Model ----
(***************************************************************************)
(* A model of hrtclient: the status-dispatch decoders, the status-coded    *)
(* error constructor, and Client.Do / Client.WithHeader.                   *)
(*                                                                         *)
(* Strings are sequences of one-character strings (JSON bodies are         *)
(* sequences of tokens); Go maps are functions; a Go error is a record     *)
(* with a kind field k, the nil error being NoErr.                         *)
(***************************************************************************)
EXTENDS Integers, Sequences, FiniteSets, TLC

VARIABLES
    mode,      \* which harness drives the model: "decode", "validated", "error", "client"
    phase,     \* harness position: "input" (arguments chosen) or "called" (result stored)
    dec,       \* the Decoder under test
    resp,      \* the *http.Response handed to Decode
    out,       \* the value behind the output pointer before the call (NIL: absent)
    res,       \* the result of the call under test
    code,      \* NewHTTPError's code argument
    str,       \* NewHTTPError's str argument, resp. the message the server put in the body
    heap,      \* the http.Header maps in memory; a reference is an index, 0 is nil
    clients,   \* the Client values in memory, in order of creation
    calls      \* per caller, the Client.Do call it is in

pureVars == <<mode, phase, dec, resp, out, res, code, str>>
clientVars == <<heap, clients, calls>>
vars == <<mode, phase, dec, resp, out, res, code, str, heap, clients, calls>>

\* ------------------------------------------------------------------ bounds
\* Largest number of entries of a StatusDecoder map.
MaxEntries == 2
\* Longest message given to NewHTTPError.
MaxMsgLen == 6

\* ------------------------------------------------------------------ values
NIL == [k |-> "nil"]
NoErr == [k |-> "nil"]
None == [k |-> "none"]

\* ------------------------------------------------------------------ strings
Digit == <<"0", "1", "2", "3", "4", "5", "6", "7", "8", "9">>

RECURSIVE Itoa(_)
\* fmt.Sprintf("%d", n): the decimal digits of n, with a minus sign for n < 0.
Itoa(n) ==
    IF n < 0 THEN <<"-">> \o Itoa(-n)
    ELSE IF n < 10 THEN <<Digit[n + 1]>>
    ELSE Itoa(n \div 10) \o <<Digit[(n % 10) + 1]>>

\* strings.HasPrefix
HasPrefix(s, p) == Len(s) >= Len(p) /\ SubSeq(s, 1, Len(p)) = p

\* strings.TrimPrefix: s without the leading p, once, if it is there.
TrimPrefix(s, p) == IF HasPrefix(s, p) THEN SubSeq(s, Len(p) + 1, Len(s)) ELSE s

IsSpace(c) == c \in {" ", "\n", "\t", "\r"}

RECURSIVE TrimLeft(_)
TrimLeft(s) == IF s # <<>> /\ IsSpace(s[1]) THEN TrimLeft(Tail(s)) ELSE s

RECURSIVE TrimRight(_)
TrimRight(s) ==
    IF s # <<>> /\ IsSpace(s[Len(s)]) THEN TrimRight(SubSeq(s, 1, Len(s) - 1)) ELSE s

\* strings.TrimSpace
TrimSpace(s) == TrimRight(TrimLeft(s))

\* ------------------------------------------------------------------ errors
\* hrt.NewHTTPError(code, str): a status-coded error.
HTTPError(c, s) == [k |-> "http", code |-> c, msg |-> s]

\* Error() of an error value, for the kinds whose text the tests compare.
ErrorString(e) ==
    IF e.k = "http" THEN Itoa(e.code) \o <<":", " ">> \o e.msg
    ELSE <<e.k>>

\* NewHTTPError without the prefix normalisation.
NewHTTPErrorNoTrim(c, s) == HTTPError(c, s)

\* NewHTTPError: strip a leading "<code>: " from str, then hrt.NewHTTPError.
NewHTTPError(c, s) ==
    LET prefix == Itoa(c) \o <<":", " ">>
    IN  HTTPError(c, TrimPrefix(s, prefix))

\* ------------------------------------------------------------------ JSON
RECURSIVE ParseMembers(_)
\* The members of a JSON object after "{": name ":" value, "," separated, to "}".
\* The result is [ok, obj]; obj maps each name to its string value.
ParseMembers(t) ==
    IF Len(t) >= 4 /\ t[2] = ":" /\ t[1] \notin {"{", "}", ":", ","}
                   /\ t[3] \notin {"{", "}", ":", ","}
    THEN IF t[4] = "}" /\ Len(t) = 4
         THEN [ok |-> TRUE, obj |-> (t[1] :> t[3])]
         ELSE IF t[4] = ","
              THEN LET rest == ParseMembers(SubSeq(t, 5, Len(t)))
                   IN  IF rest.ok
                       THEN [ok |-> TRUE, obj |-> (rest.obj @@ (t[1] :> t[3]))]
                       ELSE rest
              ELSE [ok |-> FALSE, obj |-> <<>>]
    ELSE [ok |-> FALSE, obj |-> <<>>]

\* json.NewDecoder(body).Decode: the first JSON value of the body, an object of
\* string members here; an empty body is io.EOF, anything else a syntax error.
ParseJSON(b) ==
    IF b = <<>> THEN [ok |-> FALSE, cause |-> "EOF", obj |-> <<>>]
    ELSE IF b = <<"{", "}">> THEN [ok |-> TRUE, cause |-> "", obj |-> <<>>]
    ELSE IF b[1] = "{"
         THEN LET m == ParseMembers(Tail(b))
              IN  [ok |-> m.ok, cause |-> IF m.ok THEN "" ELSE "syntax", obj |-> m.obj]
         ELSE [ok |-> FALSE, cause |-> "syntax", obj |-> <<>>]

\* ------------------------------------------------------------------ decoders
\* The reserved keys of a StatusDecoder.
Status1xx == -1
Status2xx == -2
Status3xx == -3
Status4xx == -4
Status5xx == -5

JSONCodec == [t |-> "json"]
NoDecoder == [t |-> "no"]
TextErrorDecoder == [t |-> "text"]
JSONErrorDecoder(field) == [t |-> "jsonerr", field |-> field]
\* StatusDecoder as in src/unnamed/part_001 (negated integer division) ...
StatusDecoderDiv(m) == [t |-> "status", impl |-> "div", m |-> m]
\* ... and as in src/decoder.go (range switch).
StatusDecoderSwitch(m) == [t |-> "status", impl |-> "switch", m |-> m]
ValidatedDecoder(d) == [t |-> "validated", dec |-> d]

\* Go's integer division truncates toward zero.
GoDiv(a, b) == IF a >= 0 THEN a \div b ELSE -((-a) \div b)

Found(key) == [ok |-> TRUE, key |-> key]
NotFound == [ok |-> FALSE, key |-> 0]
Lookup(e, key) == IF key \in DOMAIN e THEN Found(key) ELSE NotFound

\* A lookup that tries the bucket first and the literal code second.
StatusLookupDivBucketFirst(e, c) ==
    IF GoDiv(-c, 100) \in DOMAIN e THEN Found(GoDiv(-c, 100)) ELSE Lookup(e, c)

\* A lookup whose division rounds down instead of toward zero.
StatusLookupDivFloor(e, c) ==
    IF c \in DOMAIN e THEN Found(c) ELSE Lookup(e, (-c) \div 100)

\* The entry StatusDecoder.Decode selects in src/unnamed/part_001:
\* e[code], else e[-code / 100].
StatusLookupDiv(e, c) ==
    IF c \in DOMAIN e THEN Found(c) ELSE Lookup(e, GoDiv(-c, 100))

\* The entry StatusDecoder.Decode selects in src/decoder.go:
\* e[code], else the sentinel of the range the code lies in.
StatusLookupSwitch(e, c) ==
    IF c \in DOMAIN e THEN Found(c)
    ELSE CASE c >= 100 /\ c < 200 -> Lookup(e, Status1xx)
           [] c >= 200 /\ c < 300 -> Lookup(e, Status2xx)
           [] c >= 300 /\ c < 400 -> Lookup(e, Status3xx)
           [] c >= 400 /\ c < 500 -> Lookup(e, Status4xx)
           [] c >= 500 /\ c < 600 -> Lookup(e, Status5xx)
           [] OTHER -> NotFound

StatusLookup(d, c) ==
    IF d.impl = "div" THEN StatusLookupDiv(d.m, c) ELSE StatusLookupSwitch(d.m, c)

\* The result of a Decode call: the error returned, the value behind the output
\* pointer afterwards, the keys StatusDecoders selected, the leaf decoders that
\* ran, whether the body was read, and how often Validate() was called.
Result(err, v, sel, ran, read, nval) ==
    [err |-> err, v |-> v, sel |-> sel, ran |-> ran, read |-> read, nval |-> nval]

\* The value's Validate() capability (hrt.Validator): a "validator" value is
\* valid iff its message is not empty; other values have no Validate().
HasValidate(v) == v # NIL /\ v.type = "validator"
Validate(v) == IF v.val = "" THEN [k |-> "validate", msg |-> "message is required"] ELSE NoErr

\* jsonCodec.Decode
JSONDecode(r, v) ==
    IF r.ctype # "" /\ r.ctype # "application/json"
    THEN Result([k |-> "contenttype", ctype |-> r.ctype], v, <<>>, <<"json">>, FALSE, 0)
    ELSE IF r.readErr
    THEN Result([k |-> "decode", cause |-> "read"], v, <<>>, <<"json">>, TRUE, 0)
    ELSE LET p == ParseJSON(r.body)
         IN  IF ~p.ok
             THEN Result([k |-> "decode", cause |-> p.cause], v, <<>>, <<"json">>, TRUE, 0)
             ELSE IF v = NIL
             THEN Result([k |-> "decode", cause |-> "InvalidUnmarshal"], v,
                         <<>>, <<"json">>, TRUE, 0)
             ELSE Result(NoErr,
                         IF "message" \in DOMAIN p.obj
                         THEN [v EXCEPT !.val = p.obj["message"]] ELSE v,
                         <<>>, <<"json">>, TRUE, 0)

\* textErrorDecoder.Decode
TextErrorDecode(r, v) ==
    IF r.readErr
    THEN Result([k |-> "readbody"], v, <<>>, <<"text">>, TRUE, 0)
    ELSE Result(NewHTTPError(r.status, TrimSpace(r.body)), v, <<>>, <<"text">>, TRUE, 0)

\* jsonErrorDecoder.Decode: the struct it decodes into has the one field "error",
\* whatever e.field is. A JSON string value is one token; as a message it is the
\* one-token string.
JSONErrorDecode(e, r, v) ==
    IF r.readErr
    THEN Result([k |-> "decode", cause |-> "read"], v, <<>>, <<"jsonerr">>, TRUE, 0)
    ELSE LET p == ParseJSON(r.body)
         IN  IF ~p.ok
             THEN Result([k |-> "decode", cause |-> p.cause], v, <<>>, <<"jsonerr">>, TRUE, 0)
             ELSE Result(NewHTTPError(r.status,
                             IF "error" \in DOMAIN p.obj THEN <<p.obj["error"]>> ELSE <<>>),
                         v, <<>>, <<"jsonerr">>, TRUE, 0)

\* The fallback of StatusDecoder.Decode when no entry was selected.
StatusFallback(r, v) ==
    IF r.readErr
    THEN Result([k |-> "readbody"], v, <<>>, <<>>, TRUE, 0)
    ELSE IF Len(r.body) = 0
    THEN Result(NoErr, v, <<>>, <<>>, TRUE, 0)
    ELSE Result([k |-> "nodecoder", code |-> r.status, body |-> r.body],
                v, <<>>, <<>>, TRUE, 0)

\* A validating decoder that does not validate.
ValidatedFinishSkip(inner, v) == inner

\* validatedDecoder.Decode after the inner decoder returned `inner`.
ValidatedFinish(inner, v) ==
    IF inner.err # NoErr THEN inner
    ELSE IF HasValidate(inner.v)
    THEN [inner EXCEPT !.err = Validate(inner.v), !.nval = @ + 1]
    ELSE inner

RECURSIVE Decode(_, _, _)
\* Decoder.Decode(r, v) for each decoder of the package.
Decode(d, r, v) ==
    CASE d.t = "json" -> JSONDecode(r, v)
      [] d.t = "no" -> Result(NoErr, v, <<>>, <<"no">>, FALSE, 0)
      [] d.t = "text" -> TextErrorDecode(r, v)
      [] d.t = "jsonerr" -> JSONErrorDecode(d, r, v)
      [] d.t = "status" ->
            LET l == StatusLookup(d, r.status)
            IN  IF ~l.ok THEN StatusFallback(r, v)
                ELSE LET sub == Decode(d.m[l.key], r, v)
                     IN  [sub EXCEPT !.sel = <<l.key>> \o @]
      [] d.t = "errhandled" ->
            Decode(StatusDecoderDiv((Status1xx :> NoDecoder) @@ (Status2xx :> d.success)
                       @@ (Status3xx :> NoDecoder) @@ (Status4xx :> d.error)
                       @@ (Status5xx :> d.error)), r, v)
      [] d.t = "validated" -> ValidatedFinish(Decode(d.dec, r, v), v)

\* ------------------------------------------------------------------ inputs
\* Keys of the StatusDecoder maps: the five sentinels, literal codes, and the
\* integers next to the sentinels' range.
KeyUniverse == {Status1xx, Status2xx, Status3xx, Status4xx, Status5xx, -6, 0, 204, 404}
SubDecoders == {NoDecoder, JSONCodec, TextErrorDecoder}
StatusMaps ==
    UNION {[S -> SubDecoders] : S \in {T \in SUBSET KeyUniverse : Cardinality(T) <= MaxEntries}}
StatusDecoders == {StatusDecoderDiv(m) : m \in StatusMaps} \cup {StatusDecoderSwitch(m) : m \in StatusMaps}

\* Status codes: the ends of every class, codes inside them, and codes outside 100..599.
StatusCodes == {-250, 0, 50, 100, 199, 200, 204, 299, 300, 399, 400, 404, 499, 500, 599, 600}

BodyEmpty == <<>>
BodyText == <<"x">>
BodyJSON == <<"{", "message", ":", "hi", "}">>
Response(c, b, ct, re) == [status |-> c, body |-> b, ctype |-> ct, readErr |-> re]
\* Responses: every code with an empty, a text and a JSON body, read whole or
\* with a failing read.
DecodeResponses ==
    {Response(c, b, "", FALSE) : c \in StatusCodes, b \in {BodyEmpty, BodyText, BodyJSON}}
    \cup {Response(c, BodyText, "", TRUE) : c \in StatusCodes}

Value(type, val) == [type |-> type, val |-> val]

\* The pure-function harnesses hold no Client.
NoClient == heap = <<>> /\ clients = <<>> /\ calls = <<>>

\* ------------------------------------------------------------------ StatusDecoder.Decode
InitDecode ==
    /\ NoClient
    /\ mode = "decode"
    /\ phase = "input"
    /\ dec \in StatusDecoders
    /\ resp \in DecodeResponses
    /\ out = Value("plain", "")
    /\ res = None
    /\ code = 0
    /\ str = <<>>

\* e.Decode(r, v)
CallDecode ==
    /\ phase = "input"
    /\ phase' = "called"
    /\ res' = Decode(dec, resp, out)
    /\ UNCHANGED <<mode, dec, resp, out, code, str>>
    /\ UNCHANGED clientVars

NextDecode == CallDecode

SpecDecode == InitDecode /\ [][NextDecode]_vars

\* The sentinel of the class of status code c, for c in 100..599.
ClassKey(c) == -(c \div 100)
InClasses(c) == c >= 100 /\ c <= 599
Called == phase = "called"

\* C1: a literal entry for the response's status code is the entry whose
\* sub-decoder runs, also when the map has the bucket entry of the code's class;
\* a bucket entry is selected only when the map has no literal entry for the code.
LiteralBeforeBucket ==
    (mode = "decode" /\ Called) =>
        /\ resp.status \in DOMAIN dec.m =>
              /\ res.sel = <<resp.status>>
              /\ res.ran = Decode(dec.m[resp.status], resp, out).ran
        /\ (res.sel # <<>> /\ res.sel[1] # resp.status) => resp.status \notin DOMAIN dec.m

\* C1 witness: a decode of a code with both a literal and a bucket entry.
LiteralBeforeBucketWitness ==
    /\ mode = "decode" /\ Called
    /\ resp.status = 204
    /\ {204, Status2xx} \subseteq DOMAIN dec.m
    /\ dec.m[204] # dec.m[Status2xx]
    /\ res.sel = <<204>>

\* C2: a code in 100..599 without a literal entry goes to the entry under the
\* sentinel of its class whenever the map has that entry.
BucketRouting ==
    (mode = "decode" /\ Called /\ InClasses(resp.status)
        /\ resp.status \notin DOMAIN dec.m /\ ClassKey(resp.status) \in DOMAIN dec.m) =>
        /\ res.sel = <<ClassKey(resp.status)>>
        /\ res.ran = Decode(dec.m[ClassKey(resp.status)], resp, out).ran
        /\ res.err = Decode(dec.m[ClassKey(resp.status)], resp, out).err

\* C2 witness: a 4xx response decoded by the error decoder under Status4xx.
BucketRoutingWitness ==
    /\ mode = "decode" /\ Called
    /\ resp.status = 499 /\ resp.body = BodyText /\ ~resp.readErr
    /\ DOMAIN dec.m = {Status2xx, Status4xx}
    /\ dec.m[Status4xx] = TextErrorDecoder
    /\ res.sel = <<Status4xx>>
    /\ res.err = HTTPError(499, BodyText)

\* A status code lies in the bucket of a sentinel entry of the map.
BucketMatches(m, c) == InClasses(c) /\ ClassKey(c) \in DOMAIN m

\* C3 as claimed: with neither a literal entry for the status code nor the entry
\* of its class, and a body read to its end, no sub-decoder runs, the body is
\* read, the error is nil iff the body is empty, and for a non-empty body the
\* error carries the status code and the body.
FallbackOnNoEntry ==
    (mode = "decode" /\ Called /\ ~resp.readErr
        /\ resp.status \notin DOMAIN dec.m /\ ~BucketMatches(dec.m, resp.status)) =>
        /\ res.sel = <<>> /\ res.ran = <<>>
        /\ res.read
        /\ (res.err = NoErr) <=> (resp.body = <<>>)
        /\ resp.body # <<>> =>
              res.err = [k |-> "nodecoder", code |-> resp.status, body |-> resp.body]

\* ------------------------------------------------------------------ validatedDecoder.Decode
BodyJSONNoMsg == <<"{", "message", ":", "", "}">>
ValidatedCodes == {50, 200, 204, 404}
ValidatedResponses ==
    {Response(c, b, ct, FALSE) : c \in ValidatedCodes,
        b \in {BodyEmpty, BodyText, BodyJSON, BodyJSONNoMsg}, ct \in {"", "text/plain"}}
    \cup {Response(c, BodyJSON, "", TRUE) : c \in ValidatedCodes}
\* Output pointers: absent, a value without Validate(), and values with
\* Validate(), fresh or holding an earlier message.
Outs == {NIL, Value("plain", ""), Value("validator", ""), Value("validator", "old")}

InitValidated ==
    /\ NoClient
    /\ mode = "validated"
    /\ phase = "input"
    /\ dec \in {ValidatedDecoder(d) : d \in SubDecoders \cup StatusDecoders}
    /\ resp \in ValidatedResponses
    /\ out \in Outs
    /\ res = None
    /\ code = 0
    /\ str = <<>>

\* ValidatedDecoder(inner).Decode(r, v)
CallValidated ==
    /\ phase = "input"
    /\ phase' = "called"
    /\ res' = Decode(dec, resp, out)
    /\ UNCHANGED <<mode, dec, resp, out, code, str>>
    /\ UNCHANGED clientVars

NextValidated == CallValidated

SpecValidated == InitValidated /\ [][NextValidated]_vars

\* C8: the validating decoder returns the inner decoder's error without calling
\* Validate(); after a nil inner error it returns Validate()'s result when the
\* output value has Validate(), and nil when the output is absent or has none.
ValidateAfterDecode ==
    (mode = "validated" /\ Called) =>
        LET inner == Decode(dec.dec, resp, out)
        IN  /\ inner.err # NoErr => (res.err = inner.err /\ res.nval = 0)
            /\ (inner.err = NoErr /\ HasValidate(out)) =>
                  (res.err = Validate(inner.v) /\ res.nval = 1)
            /\ (inner.err = NoErr /\ ~HasValidate(out)) =>
                  (res.err = NoErr /\ res.nval = 0)
            /\ res.v = inner.v

\* C8 witness: the inner decoder succeeds through the fallback without writing
\* to the output, and the decode fails with the validation error.
ValidateAfterDecodeWitness ==
    /\ mode = "validated" /\ Called
    /\ dec.dec.t = "status" /\ res.sel = <<>> /\ res.ran = <<>>
    /\ resp.body = <<>>
    /\ out = Value("validator", "")
    /\ res.v = out
    /\ res.err = [k |-> "validate", msg |-> "message is required"]

\* ------------------------------------------------------------------ NewHTTPError
ErrCodes == {400, 404}
Alphabet == {"4", "0", ":", " ", "b"}
Msgs == UNION {[1..n -> Alphabet] : n \in 0..MaxMsgLen}
Prefix(c) == Itoa(c) \o <<":", " ">>
\* The decoder of the tests: JSON for 2xx, the text error decoder for 4xx and 5xx.
TestDecoder ==
    StatusDecoderSwitch((Status2xx :> JSONCodec) @@ (Status4xx :> TextErrorDecoder)
        @@ (Status5xx :> TextErrorDecoder))

InitError ==
    /\ NoClient
    /\ mode = "error"
    /\ phase = "input"
    /\ dec = TestDecoder
    /\ resp = None
    /\ out = NIL
    /\ res = None
    /\ code \in ErrCodes
    /\ str \in Msgs

\* NewHTTPError(code, str)
CallNewHTTPError ==
    /\ phase = "input"
    /\ phase' = "called"
    /\ res' = Result(NewHTTPError(code, str), out, <<>>, <<>>, FALSE, 0)
    /\ UNCHANGED <<mode, dec, resp, out, code, str>>
    /\ UNCHANGED clientVars

\* The server answers with status `code` and the text body "<code>: <str>", and
\* the decoder of the tests decodes the response.
DecodeServerError ==
    /\ phase = "input"
    /\ phase' = "decoded"
    /\ resp' = Response(code, Prefix(code) \o str, "", FALSE)
    /\ res' = Decode(dec, resp', out)
    /\ UNCHANGED <<mode, dec, out, code, str>>
    /\ UNCHANGED clientVars

NextError == CallNewHTTPError \/ DecodeServerError

SpecError == InitError /\ [][NextError]_vars

\* C9 as claimed: NewHTTPError(c, m) reads "<c>: " and then m without a leading
\* "<c>: ", and a server's text error body "<c>: <msg>" comes back as the error
\* "<c>: <msg>".
ErrorStringNormalised ==
    /\ (mode = "error" /\ phase = "called") =>
          ErrorString(res.err) = Prefix(code) \o TrimPrefix(str, Prefix(code))
    /\ (mode = "error" /\ phase = "decoded") =>
          ErrorString(res.err) = Prefix(code) \o str

\* ------------------------------------------------------------------ encoders
\* The result of an Encode call: the error, the request's header afterwards, and
\* what ran ("encode": the JSON encoder, "validate": the value's Validate()).
Encoded(err, header, ran) == [err |-> err, header |-> header, ran |-> ran]

\* http.Header.Set on a canonical key: the key's values are replaced.
HeaderSet(h, key, val) == [x \in DOMAIN h \cup {key} |-> IF x = key THEN <<val>> ELSE h[x]]

\* jsonCodec.Encode: json.Marshal, then Content-Type and the body.
JSONEncode(h, v) ==
    IF v.type = "unmarshalable"
    THEN Encoded([k |-> "encode"], h, <<"encode">>)
    ELSE Encoded(NoErr, HeaderSet(h, "Content-Type", "application/json"), <<"encode">>)

\* ValidatedEncoder(inner).Encode: the inner encoder, then the value's Validate().
ValidatedEncode(h, v) ==
    LET inner == JSONEncode(h, v)
    IN  IF inner.err # NoErr THEN inner
        ELSE IF HasValidate(v)
        THEN [inner EXCEPT !.err = Validate(v), !.ran = @ \o <<"validate">>]
        ELSE inner

\* Encoder.Encode(req, v) of a codec's encoder.
Encode(enc, h, v) == IF enc = "validated-json" THEN ValidatedEncode(h, v) ELSE JSONEncode(h, v)

\* CombinedCodec{Encoder, Decoder}
CombinedCodec(enc, d) == [enc |-> enc, dec |-> d]
\* The codecs of the tests and of the example.
Codecs == {CombinedCodec("json", TestDecoder),
           CombinedCodec("validated-json", ValidatedDecoder(TestDecoder))}

\* ------------------------------------------------------------------ headers
EmptyHeader == [x \in {} |-> <<>>]
\* for k, v := range h { base[k] = v }, a nil h (NIL) ranging over nothing
Override(base, h) ==
    IF h = NIL THEN base
    ELSE [x \in DOMAIN base \cup DOMAIN h |-> IF x \in DOMAIN h THEN h[x] ELSE base[x]]

\* The header maps the callers have written down: http.Header{...}.
HeaderA == ("X" :> <<"a">>)
HeaderB == ("X" :> <<"b">>) @@ ("Content-Type" :> <<"text/plain">>)
\* They are the first maps in memory; a caller passes one of them, or nil.
CallerMaps == <<HeaderA, HeaderB>>

\* The map behind a reference; nil is NIL.
Deref(hp, ref) == IF ref = 0 THEN NIL ELSE hp[ref]

\* hrtclient.WithHeader(ctx, header): the ambient header of the new context, from
\* the ambient header ch of ctx (NIL: none yet).
CtxWithHeader(ch, header) == IF ch = NIL THEN header ELSE Override(ch, header)

\* The ambient headers a call can come with: none, one WithHeader, or two.
Contexts ==
    {NIL, CtxWithHeader(NIL, HeaderB), CtxWithHeader(CtxWithHeader(NIL, HeaderB), HeaderA)}

\* The header merge with the Client's header applied last.
MergeHeadersClientLast(reqH, clientH, ctxH) == Override(Override(reqH, ctxH), clientH)

\* Client.Do's two loops: the Client's header over the request's, then the
\* ambient header over both.
MergeHeaders(reqH, clientH, ctxH) == Override(Override(reqH, clientH), ctxH)

\* ------------------------------------------------------------------ Client
\* Largest number of Client values.
MaxClients == 3
\* Largest number of http.Header maps in memory.
MaxMaps == 3

Client(transport, header, codec, baseURL, from, arg) ==
    [client |-> transport, header |-> header, codec |-> codec, baseURL |-> baseURL,
     from |-> from, arg |-> arg]

\* What a Client is to its users: everything but the record of its derivation.
Config(c) == [client |-> c.client, header |-> c.header, codec |-> c.codec, baseURL |-> c.baseURL]

IdleCall ==
    [pc |-> "idle", c |-> 0, ctx |-> NIL, in |-> NIL, out0 |-> NIL, out |-> NIL,
     eres |-> None, built |-> None, req |-> None, sent |-> None, ans |-> None,
     resp |-> None, dres |-> None, ret |-> None, log |-> <<>>]

\* The fields of a call: pc, where Do is; c, the receiver; ctx, the ambient header
\* of the context; in and out0, the request value and the value behind the output
\* pointer as given; out, that value now; eres, what the encoder returned; built,
\* the request's header after encoding; req, its header now; sent, its header as
\* handed to the transport; ans, what the transport returned; resp, the response;
\* dres, what the decoder returned; ret, what Do returns; log, what has run.

\* Request values: none, a valid and an invalid validator, and a value
\* json.Marshal rejects.
Ins == {NIL, Value("validator", "hi"), Value("validator", ""), Value("unmarshalable", "")}

\* What the transport can answer.
ClientResponses ==
    {Response(200, BodyJSON, "application/json", FALSE),
     Response(200, BodyJSONNoMsg, "application/json", FALSE),
     Response(204, BodyEmpty, "", FALSE),
     Response(404, <<"4", "0", "4", ":", " ", "b">>, "", FALSE)}

\* NewClient(baseURL, codec): http.DefaultClient, no header. The callers hold
\* two header maps.
InitClient(Callers) ==
    /\ mode = "client"
    /\ phase = "input"
    /\ dec = None /\ resp = None /\ out = NIL /\ res = None /\ code = 0 /\ str = <<>>
    /\ heap = CallerMaps
    /\ \E codec \in Codecs :
          clients = <<Client("http.DefaultClient", 0, codec, "http://server", 0, 0)>>
    /\ calls = [p \in Callers |-> IdleCall]

\* A WithHeader that writes the given headers into the receiver's own map.
WithHeaderInPlace(c, h) ==
    /\ Len(clients) < MaxClients
    /\ IF clients[c].header # 0
       THEN /\ heap' = [heap EXCEPT ![clients[c].header] = Override(@, Deref(heap, h))]
            /\ clients' = Append(clients, [clients[c] EXCEPT !.from = c, !.arg = h])
       ELSE /\ heap' = heap
            /\ clients' = Append(clients, [clients[c] EXCEPT !.header = h, !.from = c, !.arg = h])
    /\ UNCHANGED calls
    /\ UNCHANGED pureVars

\* c.WithHeader(header): a copy of *c; with a header of its own, a clone of it
\* overridden by the given one; without, the given map itself.
WithHeader(c, h) ==
    /\ Len(clients) < MaxClients
    /\ IF clients[c].header # 0
       THEN /\ Len(heap) < MaxMaps
            /\ heap' = Append(heap, Override(heap[clients[c].header], Deref(heap, h)))
            /\ clients' = Append(clients,
                   [clients[c] EXCEPT !.header = Len(heap) + 1, !.from = c, !.arg = h])
       ELSE /\ heap' = heap
            /\ clients' = Append(clients, [clients[c] EXCEPT !.header = h, !.from = c, !.arg = h])
    /\ UNCHANGED calls
    /\ UNCHANGED pureVars

Step(p, call) ==
    /\ calls' = [calls EXCEPT ![p] = call]
    /\ UNCHANGED <<heap, clients>>
    /\ UNCHANGED pureVars

Answers == {[k |-> "transport"]} \cup {[k |-> "response", resp |-> r] : r \in ClientResponses}
ClientOuts == {NIL, Value("plain", ""), Value("validator", "")}
\* The arguments of the Do calls: every ambient header with every request value,
\* and every output pointer.
DoArgs ==
    {[ctx |-> ctx, in |-> in, out0 |-> Value("plain", "")] : ctx \in Contexts, in \in Ins}
    \cup {[ctx |-> NIL, in |-> NIL, out0 |-> o] : o \in ClientOuts}

\* Do, to the request's construction: http.NewRequestWithContext fails on a bad
\* URL or method, and else gives a request with an empty header.
DoStartWith(p, args, urls) ==
    /\ calls[p].pc = "idle"
    /\ \E c \in 1..Len(clients), a \in args, urlOK \in urls :
          Step(p, [IdleCall EXCEPT
                     !.c = c, !.ctx = a.ctx, !.in = a.in, !.out0 = a.out0, !.out = a.out0,
                     !.log = <<"new">>,
                     !.req = IF urlOK THEN EmptyHeader ELSE None,
                     !.ret = IF urlOK THEN None ELSE [k |-> "createreq"],
                     !.pc = IF urlOK THEN "encode" ELSE "done"])

DoStart(p) == DoStartWith(p, DoArgs, BOOLEAN)

\* A Do that sends the request even though the encoder failed.
DoEncodeIgnoreError(p) ==
    LET call == calls[p]
        e == Encode(clients[call.c].codec.enc, call.req, call.in)
    IN  /\ call.pc = "encode"
        /\ IF call.in = NIL
           THEN Step(p, [call EXCEPT !.pc = "merge", !.built = call.req])
           ELSE Step(p, [call EXCEPT !.pc = "merge", !.req = e.header, !.built = e.header,
                                     !.eres = e, !.log = @ \o e.ran])

\* Do, the encoding: with a request value, the codec's encoder; its error ends
\* the call.
DoEncode(p) ==
    LET call == calls[p]
        e == Encode(clients[call.c].codec.enc, call.req, call.in)
    IN  /\ call.pc = "encode"
        /\ IF call.in = NIL
           THEN Step(p, [call EXCEPT !.pc = "merge", !.built = call.req])
           ELSE IF e.err # NoErr
           THEN Step(p, [call EXCEPT !.pc = "done", !.ret = e.err, !.req = e.header,
                                     !.eres = e, !.log = @ \o e.ran])
           ELSE Step(p, [call EXCEPT !.pc = "merge", !.req = e.header, !.built = e.header,
                                     !.eres = e, !.log = @ \o e.ran])

\* Do, the header merge.
DoMerge(p) ==
    LET call == calls[p]
    IN  /\ call.pc = "merge"
        /\ Step(p, [call EXCEPT
                      !.pc = "send",
                      !.req = MergeHeaders(call.req, Deref(heap, clients[call.c].header),
                                           call.ctx)])

\* A Do that goes on to decode after a transport error.
DoSendDecodeAnyway(p) ==
    LET call == calls[p]
    IN  /\ call.pc = "send"
        /\ \E answer \in Answers :
           Step(p, [call EXCEPT !.sent = call.req, !.ans = answer, !.log = @ \o <<"send">>,
                       !.resp = IF answer.k = "transport"
                                THEN Response(0, <<>>, "", FALSE) ELSE answer.resp,
                       !.pc = "decode"])

\* Do, the round trip c.client.Do(req): an error ends the call; a response is
\* kept, its body open.
DoSendWith(p, answers) ==
    LET call == calls[p]
    IN  /\ call.pc = "send"
        /\ \E answer \in answers :
           IF answer.k = "transport"
           THEN Step(p, [call EXCEPT !.sent = call.req, !.ans = answer,
                                     !.log = @ \o <<"send">>,
                                     !.ret = answer, !.pc = "done"])
           ELSE Step(p, [call EXCEPT !.sent = call.req, !.ans = answer,
                                     !.log = @ \o <<"send", "open">>,
                                     !.resp = answer.resp, !.pc = "decode"])

DoSend(p) == DoSendWith(p, Answers)

\* Do, the decoding: the codec's decoder, given the output pointer; its error is
\* the call's.
DoDecode(p) ==
    LET call == calls[p]
        d == Decode(clients[call.c].codec.dec, call.resp, call.out)
    IN  /\ call.pc = "decode"
        /\ Step(p, [call EXCEPT !.dres = d, !.out = d.v, !.ret = d.err,
                                !.log = @ \o <<"decode">>, !.pc = "close"])

\* A Do that leaves the body open.
DoCloseSkip(p) ==
    LET call == calls[p]
    IN  /\ call.pc = "close"
        /\ Step(p, [call EXCEPT !.pc = "done"])

\* Do, on its way out: the deferred resp.Body.Close().
DoClose(p) ==
    LET call == calls[p]
    IN  /\ call.pc = "close"
        /\ Step(p, [call EXCEPT !.log = @ \o <<"close">>, !.pc = "done"])

\* Do has returned; the caller goes on to its next call.
DoReturn(p) ==
    /\ calls[p].pc = "done"
    /\ Step(p, IdleCall)

Next ==
    \/ \E c \in 1..Len(clients), h \in 0..Len(CallerMaps) : WithHeader(c, h)
    \/ \E p \in DOMAIN calls : DoStart(p)
    \/ \E p \in DOMAIN calls : DoEncode(p)
    \/ \E p \in DOMAIN calls : DoMerge(p)
    \/ \E p \in DOMAIN calls : DoSend(p)
    \/ \E p \in DOMAIN calls : DoDecode(p)
    \/ \E p \in DOMAIN calls : DoClose(p)
    \/ \E p \in DOMAIN calls : DoReturn(p)

\* One caller.
Init == InitClient({"caller"})

Spec == Init /\ [][Next]_vars

\* ------------------------------------------------------------------ concurrent callers
\* Two callers at once, each with the same arguments in every call.
ConcArgs ==
    {[ctx |-> CtxWithHeader(NIL, HeaderB), in |-> Value("validator", "hi"),
      out0 |-> Value("validator", "")]}
ConcAnswers ==
    {[k |-> "transport"],
     [k |-> "response", resp |-> Response(200, BodyJSON, "application/json", FALSE)]}

DoStartConc(p) == DoStartWith(p, ConcArgs, {TRUE})
DoSendConc(p) == DoSendWith(p, ConcAnswers)

InitConc == InitClient({"caller1", "caller2"})

NextConc ==
    \/ \E c \in 1..Len(clients), h \in 0..Len(CallerMaps) : WithHeader(c, h)
    \/ \E p \in DOMAIN calls : DoStartConc(p)
    \/ \E p \in DOMAIN calls : DoEncode(p)
    \/ \E p \in DOMAIN calls : DoMerge(p)
    \/ \E p \in DOMAIN calls : DoSendConc(p)
    \/ \E p \in DOMAIN calls : DoDecode(p)
    \/ \E p \in DOMAIN calls : DoClose(p)
    \/ \E p \in DOMAIN calls : DoReturn(p)

SpecConc == InitConc /\ [][NextConc]_vars

\* A header as a set of keys with values: a nil map has none.
AsSet(h) == IF h = NIL THEN EmptyHeader ELSE h

\* C10: no step of a WithHeader or Do call changes an existing Client: its
\* transport, header reference, header contents, codec and base URL stay; and
\* WithHeader adds a new Client with the receiver's transport, codec and base
\* URL whose header is the receiver's overridden key by key by the given one.
ClientsImmutable ==
    [][/\ Len(clients') >= Len(clients)
       /\ \A i \in 1..Len(clients) :
             /\ Config(clients'[i]) = Config(clients[i])
             /\ Deref(heap', clients'[i].header) = Deref(heap, clients[i].header)
       /\ Len(clients') # Len(clients) =>
             /\ Len(clients') = Len(clients) + 1
             /\ LET new == clients'[Len(clients')]
                    old == clients[new.from]
                IN  /\ new.client = old.client
                    /\ new.codec = old.codec
                    /\ new.baseURL = old.baseURL
                    /\ AsSet(Deref(heap', new.header))
                          = Override(AsSet(Deref(heap, old.header)), Deref(heap, new.arg))
      ]_vars

\* C10 witness: a Client with a header of its own has been derived from, and is
\* in a Do call next to another caller's, its header as it was.
ClientsImmutableWitness ==
    /\ Len(clients) = 3
    /\ clients[2].header = 1 /\ heap[1] = HeaderA
    /\ clients[3].from = 2 /\ clients[3].arg = 2
    /\ heap[clients[3].header] = ("X" :> <<"b">>) @@ ("Content-Type" :> <<"text/plain">>)
    /\ calls["caller1"].pc = "send" /\ calls["caller1"].c = 2
    /\ calls["caller2"].pc = "decode" /\ calls["caller2"].c = 3

\* ------------------------------------------------------------------ claims about Client.Do
Count(log, e) == Cardinality({i \in 1..Len(log) : log[i] = e})
First(log, e) == CHOOSE i \in 1..Len(log) : log[i] = e /\ \A j \in 1..(i - 1) : log[j] # e
Ran(log, e) == \E i \in 1..Len(log) : log[i] = e
Keys(h) == IF h = NIL THEN {} ELSE DOMAIN h

\* C4: the header handed to the transport has, key by key, the ambient header's
\* values if the ambient header has the key, else the Client's if the Client's
\* header has it, else the values the request had after encoding.
HeaderPrecedence ==
    \A p \in DOMAIN calls :
        LET call == calls[p] IN
        call.sent # None =>
            LET ch == Deref(heap, clients[call.c].header)
                amb == call.ctx
            IN  /\ DOMAIN call.sent = DOMAIN call.built \cup Keys(ch) \cup Keys(amb)
                /\ \A x \in DOMAIN call.sent :
                      call.sent[x] = IF x \in Keys(amb) THEN amb[x]
                                     ELSE IF x \in Keys(ch) THEN ch[x]
                                     ELSE call.built[x]

\* C4 witness: a Client with X: a, an ambient X: b, an encoded request value; X: b
\* is sent, and the ambient Content-Type in place of the encoder's.
HeaderPrecedenceWitness ==
    \E p \in DOMAIN calls :
        LET call == calls[p] IN
        /\ call.sent # None
        /\ Deref(heap, clients[call.c].header) = HeaderA
        /\ call.ctx = HeaderB
        /\ call.in # NIL
        /\ call.built = ("Content-Type" :> <<"application/json">>)
        /\ call.sent = ("X" :> <<"b">>) @@ ("Content-Type" :> <<"text/plain">>)

\* C5: with a request value, the encoder (and the validation of a validating
\* encoder) has run before the transport is called; when the encoder returns an
\* error, Do returns that error, and the transport is not called, no response is
\* received and the decoder does not run.
EncodeBeforeSend ==
    \A p \in DOMAIN calls :
        LET call == calls[p] IN
        (call.pc # "idle" /\ call.in # NIL) =>
            /\ Ran(call.log, "send") =>
                  /\ call.eres # None /\ call.eres.err = NoErr
                  /\ Ran(call.log, "encode")
                  /\ First(call.log, "encode") < First(call.log, "send")
                  /\ (clients[call.c].codec.enc = "validated-json" /\ HasValidate(call.in)) =>
                        /\ Ran(call.log, "validate")
                        /\ First(call.log, "validate") < First(call.log, "send")
            /\ (call.eres # None /\ call.eres.err # NoErr) =>
                  /\ call.pc = "done" /\ call.ret = call.eres.err
                  /\ ~Ran(call.log, "send") /\ ~Ran(call.log, "open")
                  /\ ~Ran(call.log, "decode")
                  /\ call.sent = None /\ call.out = call.out0

\* C5 witness: a request value whose Validate() fails; Do has returned the
\* validation error without a round trip.
EncodeBeforeSendWitness ==
    \E p \in DOMAIN calls :
        LET call == calls[p] IN
        /\ call.pc = "done"
        /\ call.in = Value("validator", "")
        /\ call.log = <<"new", "encode", "validate">>
        /\ call.ret = [k |-> "validate", msg |-> "message is required"]

\* C6: when Do has returned, the body of a received response has been closed
\* once, and without a response no body has been closed; a body is never closed
\* twice or before it is received.
BodyClosedOnce ==
    \A p \in DOMAIN calls :
        LET call == calls[p] IN
        /\ Count(call.log, "open") <= 1
        /\ Count(call.log, "close") <= Count(call.log, "open")
        /\ call.pc = "done" => Count(call.log, "close") = Count(call.log, "open")
        /\ (call.pc = "done" /\ (call.ans = None \/ call.ans.k = "transport")) =>
              Count(call.log, "close") = 0
        /\ (call.pc = "done" /\ call.ans # None /\ call.ans.k = "response") =>
              Count(call.log, "close") = 1

\* C6 witness: Do has returned the validation error of a validating decoder, the
\* body closed.
BodyClosedOnceWitness ==
    \E p \in DOMAIN calls :
        LET call == calls[p] IN
        /\ call.pc = "done"
        /\ call.dres # None /\ call.dres.nval = 1
        /\ call.ret = [k |-> "validate", msg |-> "message is required"]
        /\ Count(call.log, "close") = 1

\* C7: after a transport error Do returns that very error, the decoder has not
\* run and the output is as given; after a response the decoder has run once
\* and Do returns what it returned.
TransportErrorAsIs ==
    \A p \in DOMAIN calls :
        LET call == calls[p] IN
        (call.pc = "done" /\ call.ans # None) =>
            IF call.ans.k = "transport"
            THEN /\ call.ret = call.ans
                 /\ ~Ran(call.log, "decode")
                 /\ call.dres = None
                 /\ call.out = call.out0
            ELSE /\ Count(call.log, "decode") = 1
                 /\ call.dres # None
                 /\ call.ret = call.dres.err

\* C7 witness: Do has returned the transport's error, the output pointer given
\* and untouched.
TransportErrorAsIsWitness ==
    \E p \in DOMAIN calls :
        LET call == calls[p] IN
        /\ call.pc = "done"
        /\ call.ans = [k |-> "transport"]
        /\ call.ret = [k |-> "transport"]
        /\ call.out0 = Value("validator", "")
        /\ call.out = call.out0

\* ------------------------------------------------------------------ header ownership
\* The caller of WithHeader goes on to use the map it passed: h.Set(key, val) on
\* one of the maps the callers hold.
CallerWrite(m, key, val) ==
    /\ heap' = [heap EXCEPT ![m] = HeaderSet(@, key, val)]
    /\ UNCHANGED <<clients, calls>>
    /\ UNCHANGED pureVars

InitOwn == InitClient({"caller"})

NextOwn ==
    \/ \E c \in 1..Len(clients), h \in 0..Len(CallerMaps) : WithHeader(c, h)
    \/ \E m \in 1..Len(CallerMaps) : CallerWrite(m, "X", "c")
    \/ \E p \in DOMAIN calls : DoStartConc(p)
    \/ \E p \in DOMAIN calls : DoEncode(p)
    \/ \E p \in DOMAIN calls : DoMerge(p)
    \/ \E p \in DOMAIN calls : DoSendConc(p)
    \/ \E p \in DOMAIN calls : DoDecode(p)
    \/ \E p \in DOMAIN calls : DoClose(p)
    \/ \E p \in DOMAIN calls : DoReturn(p)

SpecOwn == InitOwn /\ [][NextOwn]_vars

\* C11: the header map of a Client returned by WithHeader is its own: no step,
\* neither a caller's later h.Set on the map it passed nor a later WithHeader,
\* changes the header contents of an existing Client, which are what it sends.
HeaderOwned ==
    [][\A i \in 1..Len(clients) :
          Deref(heap', clients'[i].header) = Deref(heap, clients[i].header)]_vars

\* ------------------------------------------------------------------ Endpoint
\* Largest number of invocations of one endpoint callable.
MaxCalls == 2

\* Client.Do from call to return, for a Client with codec `codec` and header
\* clientH: err, what it returns; out, the value behind the output pointer
\* afterwards; sent, the header handed to the transport; log, what has run.
Do(codec, clientH, ctx, in, outv, urlOK, answer) ==
    LET e == IF in = NIL THEN Encoded(NoErr, EmptyHeader, <<>>)
             ELSE Encode(codec.enc, EmptyHeader, in)
        sent == MergeHeaders(e.header, clientH, ctx)
        d == Decode(codec.dec, answer.resp, outv)
    IN  IF ~urlOK
        THEN [err |-> [k |-> "createreq"], out |-> outv, sent |-> None, log |-> <<"new">>]
        ELSE IF e.err # NoErr
        THEN [err |-> e.err, out |-> outv, sent |-> None, log |-> <<"new">> \o e.ran]
        ELSE IF answer.k = "transport"
        THEN [err |-> answer, out |-> outv, sent |-> sent,
              log |-> <<"new">> \o e.ran \o <<"send">>]
        ELSE [err |-> d.err, out |-> d.v, sent |-> sent,
              log |-> <<"new">> \o e.ran \o <<"send", "open", "decode", "close">>]

\* Response types: hrt.None, a pointer *U and a struct U, U with or without
\* Validate().
RespTypes ==
    {[kind |-> "none", elem |-> "none"]}
    \cup {[kind |-> k, elem |-> u] : k \in {"pointer", "struct"}, u \in {"plain", "validator"}}

\* A pointer: its address (0: nil) and the value behind it.
Pointer(addr, val) == [k |-> "ptr", addr |-> addr, val |-> val]

\* zero[RespT]()
Zero(respT) == IF respT.kind = "pointer" THEN Pointer(0, NIL) ELSE Value(respT.elem, "")

\* Endpoint[ReqT, RespT](method, path): whether the callable makes a new value
\* for the output pointer, and whether it returns the value behind the pointer.
Endpoint(respT) ==
    [respT |-> respT,
     newValue |-> respT.kind # "none",
     indirect |-> respT.kind = "struct"]

\* One invocation of the callable, the new value placed at address addr: outptr,
\* the address given to Do (0: a nil output); ret and err, what it returns.
Invoke(ep, codec, in, urlOK, answer, addr) ==
    LET outv == IF ep.newValue THEN Value(ep.respT.elem, "") ELSE NIL
        do == Do(codec, NIL, NIL, in, outv, urlOK, answer)
    IN  [in |-> in, urlOK |-> urlOK, answer |-> answer,
         outptr |-> IF ep.newValue THEN addr ELSE 0,
         do |-> do,
         err |-> do.err,
         ret |-> IF ~ep.newValue THEN Zero(ep.respT)
                 ELSE IF ep.indirect THEN do.out
                 ELSE Pointer(addr, do.out)]

\* Request values: those of Do, and hrt.Empty.
EndpointIns == Ins \cup {Value("none", "")}

\* An endpoint callable and the Client it is invoked with; str holds the
\* addresses of the values made so far, code counts the invocations.
InitEndpoint ==
    /\ NoClient
    /\ mode = "endpoint"
    /\ phase = "input"
    /\ dec \in {[ep |-> Endpoint(t), codec |-> c] : t \in RespTypes, c \in Codecs}
    /\ resp = None
    /\ out = NIL
    /\ res = None
    /\ code = 0
    /\ str = <<>>

\* The callable's body; reflect.New gives an address not given before.
CallEndpoint ==
    /\ code < MaxCalls
    /\ \E in \in EndpointIns, urlOK \in BOOLEAN, answer \in Answers :
          /\ res' = Invoke(dec.ep, dec.codec, in, urlOK, answer, Len(str) + 1)
          /\ resp' = IF answer.k = "response" THEN answer.resp ELSE None
    /\ str' = IF dec.ep.newValue THEN Append(str, Len(str) + 1) ELSE str
    /\ code' = code + 1
    /\ phase' = "called"
    /\ UNCHANGED <<mode, dec, out>>
    /\ UNCHANGED clientVars

NextEndpoint == CallEndpoint

SpecEndpoint == InitEndpoint /\ [][NextEndpoint]_vars

\* C12: with a pointer response type every invocation makes a new value and
\* gives its address to Do; when Do succeeds the callable returns that pointer,
\* and when Do returns an error it returns the nil pointer and that error.
PointerEndpoint ==
    (mode = "endpoint" /\ Called /\ dec.ep.respT.kind = "pointer") =>
        /\ res.outptr # 0
        /\ \A i \in 1..(Len(str) - 1) : str[i] # res.outptr
        /\ res.err = res.do.err
        /\ res.err = NoErr => res.ret = Pointer(res.outptr, res.do.out)
        /\ res.err # NoErr => res.ret = Pointer(0, NIL)

\* C13: with the response type hrt.None the callable gives Do a nil output
\* pointer, and when the server answers 204 with an empty body the callable
\* returns the zero value and a nil error, with either codec of the tests.
NoBodyEndpoint ==
    (mode = "endpoint" /\ Called /\ dec.ep.respT.kind = "none") =>
        /\ res.outptr = 0
        /\ (Ran(res.do.log, "decode") /\ resp = Response(204, BodyEmpty, "", FALSE)) =>
              /\ res.ret = Zero(dec.ep.respT)
              /\ res.err = NoErr

\* ------------------------------------------------------------------ JSONErrorDecoder
\* Field names a JSONErrorDecoder is made with, and that a body's object has.
ErrorFields == {"error", "message", "detail"}
ErrorTexts == {"bad", "oops"}
\* Bodies: objects of one or two string members, the empty object, text, nothing.
ErrorBodies ==
    {<<"{", f, ":", s, "}">> : f \in ErrorFields, s \in ErrorTexts}
    \cup {<<"{", f.a, ":", s.a, ",", f.b, ":", s.b, "}">> :
             f \in {g \in [a : ErrorFields, b : ErrorFields] : g.a # g.b},
             s \in [a : ErrorTexts, b : ErrorTexts]}
    \cup {<<"{", "}">>, BodyText, BodyEmpty}

InitJSONError ==
    /\ NoClient
    /\ mode = "jsonerr"
    /\ phase = "input"
    /\ dec \in {JSONErrorDecoder(f) : f \in ErrorFields}
    /\ resp \in {Response(c, b, ct, FALSE) : c \in ErrCodes, b \in ErrorBodies,
                    ct \in {"application/json"}}
              \cup {Response(c, <<"{", "error", ":", "bad", "}">>, "application/json", TRUE) :
                       c \in ErrCodes}
    /\ out \in {NIL, Value("plain", "")}
    /\ res = None
    /\ code = 0
    /\ str = <<>>

NextJSONError == CallDecode

SpecJSONError == InitJSONError /\ [][NextJSONError]_vars

\* C14: for a body that is a JSON object with a string under the decoder's
\* field, JSONErrorDecoder(field).Decode returns the status-coded error with the
\* response's status code and that string as its message.
JSONErrorField ==
    (mode = "jsonerr" /\ Called /\ ~resp.readErr /\ ParseJSON(resp.body).ok) =>
        LET obj == ParseJSON(resp.body).obj
        IN  dec.field \in DOMAIN obj =>
               res.err = HTTPError(resp.status, <<obj[dec.field]>>)

\* ------------------------------------------------------------------ key selection
\* C15: StatusDecoder.Decode selects an entry only under the status code itself
\* or under the sentinel of the code's class, the code in 100..599; a code with
\* neither entry gets the fallback; the entry under key 0 is selected for status
\* 0 only; and the negated-division lookup and the range-switch lookup select
\* the same entry of the same map for the same code.
KeySelectionExact ==
    (mode = "decode" /\ Called) =>
        LET c == resp.status
            exact == c \in DOMAIN dec.m \/ BucketMatches(dec.m, c)
        IN  /\ res.sel # <<>> =>
                  \/ res.sel[1] = c
                  \/ InClasses(c) /\ res.sel[1] = ClassKey(c)
            /\ ~exact => (res.sel = <<>> /\ res = StatusFallback(resp, out))
            /\ (res.sel # <<>> /\ res.sel[1] = 0) => c = 0
            /\ StatusLookupDiv(dec.m, c) = StatusLookupSwitch(dec.m, c)

====
